---- MODULE Spec2Model ----
(***************************************************************************)
(* Garmin synchronization engine of gymbro (src/app/garmin/sync.py and its *)
(* callers in src/app/garmin/routes.py): the retry wrapper, the session    *)
(* opening, the window planning, the activity and daily-metrics stages and *)
(* the SyncState writes, as a state machine over the storage calls.        *)
(***************************************************************************)
EXTENDS Integers, Sequences, FiniteSets, TLC

VARIABLES
    fnName, fnArg, fnRes,   \* a function under check: its name, input, result
    env,                    \* the provider, the process and the faults of this behaviour
    creds,                  \* users.garmin_email / users.garmin_password
    status,                 \* users.garmin_sync_status
    last_error,             \* users.garmin_last_sync_error
    started_at,             \* users.garmin_sync_started_at
    completed_at,           \* users.garmin_sync_completed_at
    goals,                  \* users.goals (JSONB)
    activities,             \* table garmin_activities
    daily,                  \* table garmin_daily
    sleep,                  \* table garmin_sleep
    maxmetrics,             \* table garmin_maxmetrics
    run,                    \* the worker threads: position and locals of each
    clock,                  \* datetime.now(): ticks at every timestamp taken
    invoked,                \* number of sync runs started so far
    hist,                   \* history: the baselines calls made, the windows completed
    profile                 \* the PUT /auth/profile request: position and locals

fnVars == <<fnName, fnArg, fnRes>>
userVars == <<creds, status, last_error, started_at, completed_at, goals>>
tableVars == <<activities, daily, sleep, maxmetrics>>
runVars == <<run, clock, invoked, hist, profile>>

vars == <<fnName, fnArg, fnRes, env, creds, status, last_error, started_at,
          completed_at, goals, activities, daily, sleep, maxmetrics, run,
          clock, invoked, hist, profile>>

(***************************************************************************)
(* Bounds of the model                                                     *)
(***************************************************************************)
\* largest retry budget handed to robust_api_call in the function checks
MaxRetries == 3

(***************************************************************************)
(* Program constants                                                       *)
(***************************************************************************)
\* robust_api_call(func, *args, retries=3, **kwargs)
DefaultRetries == 3
\* start_date = last_synced - timedelta(days=3)
OverlapDays == 3
\* start_date = end_date - timedelta(days=1825)
LookbackDays == 1825
\* daily_start_date = end_date - timedelta(days=30)
DailyLookbackDays == 30
\* limit = 100: the page size of get_activities
limit == 100
\* act_date < (start_date - timedelta(days=7))
StopMarginDays == 7
\* fetch_details = not is_initial_sync or (i < 50)
DetailCap == 50
\* for attempt in range(2): the detail fetch
DetailAttempts == 2
\* i % 5 == 0: an activity progress update
ActivityProgressEvery == 5
\* len(batch_activities) >= 20
ActivityBatchSize == 20
\* days_processed % 3 == 0: a daily progress update
DayProgressEvery == 3
\* len(daily_batch) >= 7
WeeklyBatchSize == 7

(***************************************************************************)
(* JSON-shaped provider payloads.  A value is a tagged record: null, bool, *)
(* num, str, list (items: a sequence) or dict (kv: a function from keys).  *)
(***************************************************************************)
JNull == [t |-> "null"]
JBool(b) == [t |-> "bool", b |-> b]
JNum(n) == [t |-> "num", v |-> n]
JStr(s) == [t |-> "str", s |-> s]
JList(items) == [t |-> "list", items |-> items]
JDict(kv) == [t |-> "dict", kv |-> kv]
EmptyDict == JDict(<<>>)
EmptyList == JList(<<>>)

\* isinstance(x, dict), isinstance(x, list)
IsDict(j) == j.t = "dict"
IsList(j) == j.t = "list"
\* isinstance(x, (int, float)): bool is a subclass of int in Python
IsIntOrFloat(j) == j.t \in {"num", "bool"}
\* Python truthiness of a JSON value
Truthy(j) ==
    CASE j.t = "null" -> FALSE
      [] j.t = "bool" -> j.b
      [] j.t = "num" -> j.v # 0
      [] j.t = "str" -> j.s # ""
      [] j.t = "list" -> Len(j.items) > 0
      [] j.t = "dict" -> DOMAIN j.kv # {}
\* d.get(key, default) on a dict
DictGet(d, key, default) == IF key \in DOMAIN d.kv THEN d.kv[key] ELSE default

\* the outcome of evaluating an expression: a value, or an exception raised
Val(j) == [exc |-> FALSE, val |-> j]
Raised == [exc |-> TRUE, val |-> JNull]

(***************************************************************************)
(* robust_api_call: outs[i] is what the i-th invocation of func does       *)
(***************************************************************************)
TransientErrors == {"SSLError", "ConnectionError", "ChunkedEncodingError"}
OtherErrors == {"AuthenticationError", "HTTPError"}
CallOutcomes == {"ok"} \cup TransientErrors \cup OtherErrors

\* the for loop of robust_api_call from `attempt` on; last is the attempt
\* whose exception last_exception holds (0: None), slept the seconds slept
RECURSIVE RobustLoop(_, _, _, _, _)
RobustLoop(outs, retries, attempt, last, slept) ==
    IF attempt >= retries
    THEN IF last # 0
         THEN [ret |-> "raise", calls |-> attempt, err |-> last,
               kind |-> outs[last], slept |-> slept]
         ELSE [ret |-> "none", calls |-> attempt, err |-> 0,
               kind |-> "none", slept |-> slept]
    ELSE LET o == outs[attempt + 1] IN
         IF o = "ok"
         THEN [ret |-> "ok", calls |-> attempt + 1, err |-> 0,
               kind |-> "ok", slept |-> slept]
         ELSE IF o \in TransientErrors
         THEN RobustLoop(outs, retries, attempt + 1, attempt + 1,
                         slept + 1 * (attempt + 1))
         ELSE [ret |-> "raise", calls |-> attempt + 1, err |-> attempt + 1,
               kind |-> o, slept |-> slept]

\* plausible bug: every exception is retried, not only the network ones
robust_api_call_retry_all(outs, retries) ==
    LET firstOk == {i \in 1..retries : outs[i] = "ok"} IN
    IF firstOk = {}
    THEN [ret |-> "raise", calls |-> retries, err |-> retries,
          kind |-> outs[retries], slept |-> 0]
    ELSE LET k == CHOOSE i \in firstOk : \A j \in firstOk : i <= j IN
         [ret |-> "ok", calls |-> k, err |-> 0, kind |-> "ok", slept |-> 0]

robust_api_call(outs, retries) == RobustLoop(outs, retries, 0, 0, 0)

(***************************************************************************)
(* Normalization of resting heart rate and stress (inline in the day loop) *)
(***************************************************************************)
RhrKey == "WELLNESS_RESTING_HEART_RATE"

\* the body of the try block for RHR
NormalizeRhrBody(rhr_raw) ==
    IF IsDict(rhr_raw)
    THEN LET am == DictGet(rhr_raw, "allMetrics", EmptyDict) IN
         IF ~IsDict(am) THEN Raised
         ELSE LET mmap == DictGet(am, "metricsMap", EmptyDict) IN
              IF ~IsDict(mmap) THEN Raised
              ELSE LET vals == DictGet(mmap, RhrKey, EmptyList) IN
                   IF Truthy(vals) /\ IsList(vals)
                   THEN IF IsDict(vals.items[1])
                        THEN Val(DictGet(vals.items[1], "value", JNull))
                        ELSE Raised
                   ELSE Val(JNull)
    ELSE IF IsIntOrFloat(rhr_raw) THEN Val(rhr_raw)
    ELSE Val(JNull)

\* the body of the try block for stress
NormalizeStressBody(stress_raw) ==
    IF IsDict(stress_raw) THEN Val(DictGet(stress_raw, "avgStressLevel", JNull))
    ELSE IF IsIntOrFloat(stress_raw) THEN Val(stress_raw)
    ELSE Val(JNull)

\* try: ... except: pass around a body, the value starting as None
TryExceptPass(body) == IF body.exc THEN Val(JNull) ELSE body

NormalizeRhr(rhr_raw) == TryExceptPass(NormalizeRhrBody(rhr_raw))

NormalizeStress(stress_raw) == TryExceptPass(NormalizeStressBody(stress_raw))

\* {"allMetrics": {"metricsMap": {"WELLNESS_RESTING_HEART_RATE": v}}}
Nested(v) == JDict("allMetrics" :> JDict("metricsMap" :> JDict(RhrKey :> v)))
ValueEntry(v) == JDict("value" :> v)

\* the payload shapes get_rhr_day is fed with
RhrInputs ==
    << JNum(42),
       JDict("restingHeartRate" :> JNum(45)),
       Nested(JList(<<ValueEntry(JNum(47))>>)),
       JDict("unknownShape" :> JNum(1)),
       JNull,
       JStr("55"),
       JList(<<JNum(42)>>),
       JBool(TRUE),
       EmptyDict,
       JDict("allMetrics" :> JNull),
       JDict("allMetrics" :> JNum(5)),
       JDict("allMetrics" :> EmptyDict),
       JDict("allMetrics" :> JDict("metricsMap" :> JNull)),
       Nested(EmptyList),
       Nested(JList(<<JNum(47)>>)),
       Nested(JList(<<EmptyDict>>)),
       Nested(ValueEntry(JNum(47))),
       Nested(JList(<<ValueEntry(JNum(47)), ValueEntry(JNum(50))>>)),
       JDict(("restingHeartRate" :> JNum(45))
             @@ ("allMetrics" :> JDict("metricsMap" :>
                    JDict(RhrKey :> JList(<<ValueEntry(JNum(47))>>))))),
       JNum(0),
       Nested(JList(<<ValueEntry(JNull)>>)),
       Nested(JNull),
       Nested(JList(<<ValueEntry(JStr("x"))>>)),
       Nested(JList(<<JNull>>)) >>

\* the payload shapes get_stress_data is fed with
StressInputs ==
    << JNum(30),
       JDict("avgStressLevel" :> JNum(25)),
       JDict("unknownShape" :> JNum(1)),
       JNull,
       JList(<<JNum(30)>>),
       JBool(FALSE),
       JDict("avgStressLevel" :> JNull),
       EmptyDict,
       JStr("30"),
       Nested(JList(<<ValueEntry(JNum(20))>>)) >>

(***************************************************************************)
(* Dates are day numbers, timestamps pairs of a date and a clock tick.     *)
(***************************************************************************)
\* date.today(): the day every run of a behaviour executes on
Today == 2000
\* None where a date is expected
NoDate == 0 - 1
\* a timestamp (isoformat string); NoStamp: the key or column is absent
Stamp(d, t) == [d |-> d, t |-> t]
NoStamp == Stamp(NoDate, 0)
\* datetime.fromisoformat(s).date()
DateOf(stamp) == stamp.d
\* the sync_progress key is absent from goals
NoProgress == 0 - 1

\* invocations of the sync in one behaviour
MaxInvocations == 2

\* worker threads that can be alive at once
Runs == {"r1", "r2"}
TheUser == "u1"

(***************************************************************************)
(* Faults: the provider and storage calls that fail in this behaviour.     *)
(* A fault names a call site s and, for a call in a loop, its index n.     *)
(***************************************************************************)
F(s, n) == [s |-> s, n |-> n]
Fault(s) == F(s, 0) \in env.faults
FaultAt(s, n) == F(s, n) \in env.faults

(***************************************************************************)
(* CredentialVault and ProviderSession                                     *)
(***************************************************************************)
Keys == {"k1", "k2"}
NoKey == "none"
\* a Fernet token: the key it was made with, and whether it is intact
Token(k, intact) == [present |-> TRUE, key |-> k, intact |-> intact]
NoToken == [present |-> FALSE, key |-> NoKey, intact |-> FALSE]

\* Fernet(key).decrypt(token): "ok" with the plaintext, or the exception
FernetDecrypt(token, key) ==
    IF key = NoKey THEN "ValueError"
    ELSE IF token.intact /\ token.key = key THEN "ok"
    ELSE "InvalidToken"

\* decrypt_data(encrypted_text): its one parameter; the key is the process's
decrypt_data(encrypted_text) == FernetDecrypt(encrypted_text, env.configKey)

\* decrypt(ciphertext, key) of the specification, section 4.1
decrypt_data_keyed(encrypted_text, key) == FernetDecrypt(encrypted_text, key)

\* the parameter names decrypt_data accepts
DecryptParams == IF env.keyed THEN {"encrypted_text", "key"} ELSE {"encrypted_text"}

\* the call decrypt_data(encrypted_password, key=encryption_key)
DecryptCall(encrypted_password, encryption_key) ==
    IF "key" \notin DecryptParams THEN "TypeError"
    ELSE decrypt_data_keyed(encrypted_password, encryption_key)

\* what Garmin(email, password).login() does for the stored account
LoginOutcomes == {"ok", "GarminConnectAuthenticationError",
                  "GarminConnectConnectionError", "HTTPError",
                  "GarminConnectTooManyRequestsError", "ConnectionError"}
\* the exceptions of login() that init_garmin_api_for_user catches
LoginCaught == {"GarminConnectAuthenticationError",
                "GarminConnectConnectionError", "HTTPError"}

Session == [ret |-> "session", exc |-> ""]
NoSession == [ret |-> "none", exc |-> ""]
Throws(e) == [ret |-> "raise", exc |-> e]

init_garmin_api_for_user(encryption_key) ==
    IF Fault("init_read_user") THEN Throws("StorageError")
    ELSE IF ~creds.email \/ ~creds.password.present THEN NoSession
    ELSE IF DecryptCall(creds.password, encryption_key) # "ok" THEN NoSession
    ELSE IF env.login = "ok" THEN Session
    ELSE IF env.login \in LoginCaught THEN NoSession
    ELSE Throws(env.login)

(***************************************************************************)
(* The worker thread of one sync run                                       *)
(***************************************************************************)
ReconnectMessage == "Failed to initialize Garmin API session. Please reconnect."
NoUnits == "none"
NoGoals ==
    [sync_progress |-> NoProgress, garmin_last_synced |-> NoStamp,
     units |-> NoUnits]

\* nothing called, no window completed (every start date is wider)
\* progress_fell: a progress write has stored less than was stored before.
\* the last call of a route that started no thread: the status it saw and
\* the HTTP answer it gave (code 0: a plain return, no HTTP answer)
NoCall == [fn |-> "none", seen |-> "none", code |-> 0, status |-> "none"]
Answer(fn, seen, code, st) ==
    [fn |-> fn, seen |-> seen, code |-> code, status |-> st]

NoHistory ==
    [analytics_run |-> 0, analytics_wrapper |-> 0,
     done_act |-> Today + 1, done_daily |-> Today + 1, declined |-> NoCall,
     progress_fell |-> FALSE]

IdleRun ==
    [pc |-> "idle", via |-> "none", inv |-> 0, force |-> FALSE, key |-> NoKey,
     user_goals |-> NoGoals, last_synced |-> NoDate, exc |-> "",
     pct |-> 0, ret |-> "", goals_tmp |-> NoGoals,
     is_initial_sync |-> FALSE, start_date |-> NoDate, end_date |-> NoDate,
     daily_start_date |-> NoDate, raw_activities |-> <<>>, i |-> 0,
     batch_activities |-> <<>>, existing |-> {}, current_day |-> NoDate,
     days_processed |-> 0, daily_batch |-> <<>>, sleep_batch |-> <<>>,
     \* history of the run, read by the properties only
     calls |-> {}, pages |-> 0, act_upserted |-> 0, daily_batches |-> <<>>,
     sleep_batches |-> <<>>, failed |-> {}, written |-> <<>>,
     skipped |-> {}, fetched |-> {}, details_log |-> <<>>]

\* no profile request under way
IdleProfile == [pc |-> "idle", current_goals |-> NoGoals]

Live(r) == run[r].pc \notin {"idle", "ended", "crashed"}

\* the thread raises e to the top-level handler of the sync
Raise(rec, e) == [rec EXCEPT !.pc = "except", !.exc = e, !.failed = @ \cup {e}]

\* POST /garmin/sync: the status check, then the thread
\* plausible bug: the routes never see a sync in progress
AlreadySyncingNever(s) == FALSE

\* the test both routes make on the status they read
AlreadySyncing(s) == s = "syncing"

\* the thread a route starts in slot r
StartThread(r, via, force) ==
    /\ ~Live(r)
    /\ invoked < env.runs
    /\ run' = [run EXCEPT ![r] = [IdleRun EXCEPT !.pc = "start", !.via = via,
                  !.inv = invoked + 1, !.force = force, !.key = env.configKey]]
    /\ invoked' = invoked + 1

\* POST /garmin/sync: 200 and a thread, unless a sync is in progress
trigger_garmin_sync(r, force) ==
    /\ IF Fault("route_read")
       THEN /\ hist' = [hist EXCEPT !.declined =
                   Answer("trigger_garmin_sync", "none", 500, "none")]
            /\ UNCHANGED <<run, invoked>>
       ELSE IF AlreadySyncing(status)
       THEN /\ hist' = [hist EXCEPT !.declined =
                   Answer("trigger_garmin_sync", status, 200, "syncing")]
            /\ UNCHANGED <<run, invoked>>
       ELSE /\ StartThread(r, "sync", force)
            /\ UNCHANGED hist
    /\ UNCHANGED <<fnVars, profile, env, userVars, tableVars, clock>>

\* sync_if_needed, called when a chat request comes in; stale: more than 24
\* hours have passed since garmin_sync_completed_at
sync_if_needed(r, stale) ==
    /\ IF Fault("route_read") \/ AlreadySyncing(status)
          \/ ~(completed_at = 0 \/ stale)
       THEN /\ hist' = [hist EXCEPT !.declined =
                   Answer("sync_if_needed",
                          IF Fault("route_read") THEN "none" ELSE status,
                          0, "none")]
            /\ UNCHANGED <<run, invoked>>
       ELSE /\ StartThread(r, "auto", FALSE)
            /\ UNCHANGED hist
    /\ UNCHANGED <<fnVars, profile, env, userVars, tableVars, clock>>

\* plausible bug: the progress is read without its default
get_garmin_status_nodefault ==
    IF Fault("route_read") THEN [code |-> 500]
    ELSE [code |-> 200, garmin_sync_status |-> status,
          garmin_last_sync_error |-> last_error,
          garmin_sync_progress |-> goals.sync_progress]

\* GET /garmin/status: the answer for the stored user record
get_garmin_status ==
    IF Fault("route_read") THEN [code |-> 500]
    ELSE [code |-> 200, garmin_sync_status |-> status,
          garmin_last_sync_error |-> last_error,
          garmin_sync_progress |-> IF goals.sync_progress = NoProgress THEN 0
                                   ELSE goals.sync_progress]

\* POST /garmin/connect: store the encrypted credentials, then the thread
connect_garmin(r) ==
    /\ ~Live(r)
    /\ invoked < env.runs
    /\ env.configKey # NoKey
    /\ creds' = [email |-> TRUE, password |-> Token(env.configKey, TRUE)]
    /\ run' = [run EXCEPT ![r] = [IdleRun EXCEPT !.pc = "start", !.via = "connect",
                  !.inv = invoked + 1, !.force = FALSE, !.key = env.configKey]]
    /\ invoked' = invoked + 1
    /\ UNCHANGED <<fnVars, profile, env, status, last_error, started_at, completed_at,
                   goals, tableVars, clock, hist>>

\* sync_all_garmin_data_for_user, 1: read goals and the watermark
ReadGoals(r) ==
    /\ run[r].pc = "start"
    /\ run' = [run EXCEPT ![r] =
         IF Fault("read_goals") THEN Raise(@, "StorageError")
         ELSE [@ EXCEPT !.pc = "write_syncing",
                        !.user_goals = goals,
                        !.last_synced = DateOf(goals.garmin_last_synced)]]
    /\ UNCHANGED <<fnVars, profile, env, userVars, tableVars, clock, invoked, hist>>

\* plausible bug: the first update resets the progress but not the status
WriteSyncingKeepsStatus(r) ==
    /\ run[r].pc = "write_syncing"
    /\ goals' = [run[r].user_goals EXCEPT !.sync_progress = 0]
    /\ run' = [run EXCEPT ![r] = [@ EXCEPT !.pc = "init_session",
                  !.user_goals = [@ EXCEPT !.sync_progress = 0],
                  !.written = Append(@, 0)]]
    /\ UNCHANGED <<fnVars, profile, env, creds, status, started_at, last_error,
                   completed_at, tableVars, clock, invoked, hist>>

\* reset progress to 0 and status to syncing; the update fails at a broken
\* site, or in the one invocation the fault plan names
WriteSyncing(r) ==
    /\ run[r].pc = "write_syncing"
    /\ IF Fault("write_syncing") \/ FaultAt("write_syncing", run[r].inv)
       THEN /\ run' = [run EXCEPT ![r] = Raise(@, "StorageError")]
            /\ UNCHANGED <<status, started_at, goals, clock>>
       ELSE /\ status' = "syncing"
            /\ started_at' = clock + 1
            /\ clock' = clock + 1
            /\ goals' = [run[r].user_goals EXCEPT !.sync_progress = 0]
            /\ run' = [run EXCEPT ![r] = [@ EXCEPT !.pc = "init_session",
                          !.user_goals = [@ EXCEPT !.sync_progress = 0],
                          !.written = Append(@, 0)]]
    /\ UNCHANGED <<fnVars, profile, env, creds, last_error, completed_at, tableVars,
                   invoked, hist>>

\* garmin_api = init_garmin_api_for_user(user_id, encryption_key)
InitSession(r) ==
    /\ run[r].pc = "init_session"
    /\ LET res == init_garmin_api_for_user(run[r].key) IN
       run' = [run EXCEPT ![r] =
         CASE res.ret = "raise" -> Raise(@, res.exc)
           [] res.ret = "none" -> [@ EXCEPT !.pc = "null_session",
                                            !.failed = @ \cup {"session"}]
           [] OTHER -> [@ EXCEPT !.pc = "progress5"]]
    /\ UNCHANGED <<fnVars, profile, env, userVars, tableVars, clock, invoked, hist>>

\* plausible bug: the null session is not checked and the run goes on
NullSessionGoesOn(r) ==
    /\ run[r].pc = "null_session"
    /\ run' = [run EXCEPT ![r] = [@ EXCEPT !.pc = "progress5"]]
    /\ UNCHANGED <<fnVars, profile, env, userVars, tableVars, clock, invoked, hist>>

\* if not garmin_api: status error, the reconnect message, return
NullSession(r) ==
    /\ run[r].pc = "null_session"
    /\ IF Fault("write_null_error")
       THEN /\ run' = [run EXCEPT ![r] = Raise(@, "StorageError")]
            /\ UNCHANGED <<status, last_error>>
       ELSE /\ status' = "error"
            /\ last_error' = ReconnectMessage
            /\ run' = [run EXCEPT ![r] = [@ EXCEPT !.pc = "returned"]]
    /\ UNCHANGED <<fnVars, profile, env, creds, started_at, completed_at, goals,
                   tableVars, clock, invoked, hist>>

\* plausible bug: the exception is logged and the status left as it is
TopExceptSilent(r) ==
    /\ run[r].pc = "except"
    /\ run' = [run EXCEPT ![r] = [@ EXCEPT !.pc = "returned"]]
    /\ UNCHANGED <<fnVars, profile, env, userVars, tableVars, clock, invoked, hist>>

\* except Exception as e: status error, last_error = str(e)
TopExcept(r) ==
    /\ run[r].pc = "except"
    /\ IF Fault("write_error")
       THEN /\ run' = [run EXCEPT ![r] = [@ EXCEPT !.pc = "crashed"]]
            /\ UNCHANGED <<status, last_error>>
       ELSE /\ status' = "error"
            /\ last_error' = run[r].exc
            /\ run' = [run EXCEPT ![r] = [@ EXCEPT !.pc = "returned"]]
    /\ UNCHANGED <<fnVars, profile, env, creds, started_at, completed_at, goals,
                   tableVars, clock, invoked, hist>>

\* the route's thread wrapper after the sync returned: the baselines again
WrapperAnalytics(r) ==
    /\ run[r].pc = "returned"
    /\ run' = [run EXCEPT ![r] = [@ EXCEPT !.pc = "ended"]]
    /\ hist' = IF run[r].via \in {"sync", "connect"}
               THEN [hist EXCEPT !.analytics_wrapper = @ + 1] ELSE hist
    /\ UNCHANGED <<fnVars, profile, env, userVars, tableVars, clock, invoked>>

(***************************************************************************)
(* The provider: the activity feed, newest first, as groups of n entries   *)
(* of one age (days before today); entry k of the feed has activityId k.   *)
(***************************************************************************)
\* an entry without startTimeLocal, and one whose startTimeLocal does not parse
MissingDate == 0 - 1
BadDate == 0 - 2
G(n, age) == [n |-> n, age |-> age]

RECURSIVE FeedLen(_)
FeedLen(feed) == IF feed = <<>> THEN 0 ELSE Head(feed).n + FeedLen(Tail(feed))

RECURSIVE EntryAge(_, _)
EntryAge(feed, k) ==
    IF k <= Head(feed).n THEN Head(feed).age
    ELSE EntryAge(Tail(feed), k - Head(feed).n)

HasDate(feed, k) == EntryAge(feed, k) >= 0
EntryDate(feed, k) == Today - EntryAge(feed, k)

Min(a, b) == IF a <= b THEN a ELSE b
Range(lo, hi) == [j \in 1..(hi - lo + 1) |-> lo + j - 1]

\* what the attempts of a call do: a lasting outage, a blip the first
\* attempt sees, a lasting HTTP error, or success
Outs(site, n, len) ==
    [a \in 1..len |->
        IF FaultAt(site, n) THEN "ConnectionError"
        ELSE IF FaultAt(site \o "_http", n) THEN "HTTPError"
        ELSE IF FaultAt(site \o "_blip", n) /\ a = 1 THEN "SSLError"
        ELSE IF FaultAt(site \o "_chunk", n) /\ a = 1 THEN "ChunkedEncodingError"
        ELSE "ok"]

(***************************************************************************)
(* Window planning (sync.py, "2. Determine Scope")                         *)
(***************************************************************************)
\* plausible bug: the overlap is left out of the incremental start
PlanWindowNoOverlap(last_synced, force_resync) ==
    IF last_synced # NoDate /\ ~force_resync
    THEN [is_initial_sync |-> FALSE, start_date |-> last_synced,
          daily_start_date |-> last_synced, end_date |-> Today]
    ELSE [is_initial_sync |-> TRUE, start_date |-> Today - LookbackDays,
          daily_start_date |-> Today - DailyLookbackDays, end_date |-> Today]

PlanWindow(last_synced, force_resync) ==
    IF last_synced # NoDate /\ ~force_resync
    THEN [is_initial_sync |-> FALSE,
          start_date |-> last_synced - OverlapDays,
          daily_start_date |-> last_synced - OverlapDays,
          end_date |-> Today]
    ELSE [is_initial_sync |-> TRUE,
          start_date |-> Today - LookbackDays,
          daily_start_date |-> Today - DailyLookbackDays,
          end_date |-> Today]

(***************************************************************************)
(* The pagination loop (sync.py, "Robust Pagination Loop")                 *)
(***************************************************************************)
\* one page: the entries start_idx+1 .. start_idx+limit of the feed
PageOf(feed, start_idx) == Range(start_idx + 1, Min(start_idx + limit, FeedLen(feed)))

InWindow(feed, k, start_date, end_date) ==
    /\ HasDate(feed, k)
    /\ EntryDate(feed, k) >= start_date
    /\ EntryDate(feed, k) <= end_date

\* plausible bug: the loop goes on after a stopping page
StopFetchingNever(feed, batch, start_date) == FALSE

\* stop_fetching after the for loop over a batch
StopFetching(feed, batch, start_date) ==
    \E j \in 1..Len(batch) :
        HasDate(feed, batch[j]) /\ EntryDate(feed, batch[j]) < start_date

\* plausible bug: the failure of a page escapes the pagination loop
PageFailedRaises(asked, page) ==
    [asked EXCEPT !.failed_page = page, !.end = "raise"]

\* the except branch around the page request: log, then break
PageFailed(asked, page) == [asked EXCEPT !.failed_page = page]

\* the while loop from start_idx on; acc: raw_activities, the page requests
\* made and how the loop ended ("break", or "raise" out of the stage)
RECURSIVE PageLoop(_, _, _, _, _)
PageLoop(feed, start_date, end_date, start_idx, acc) ==
    LET page == start_idx \div limit + 1
        res == robust_api_call(Outs("page", page, DefaultRetries), DefaultRetries)
        asked == [acc EXCEPT !.pages = @ + 1]
        batch == PageOf(feed, start_idx)
    IN  IF res.ret # "ok" THEN PageFailed(asked, page)
        ELSE IF batch = <<>> THEN asked
        ELSE IF \E j \in 1..Len(batch) : EntryAge(feed, batch[j]) = BadDate
        THEN [asked EXCEPT !.end = "raise"]
        ELSE LET valid_batch ==
                     SelectSeq(batch, LAMBDA k : InWindow(feed, k, start_date, end_date))
                 more == [asked EXCEPT !.raw = @ \o valid_batch]
             IN  IF StopFetching(feed, batch, start_date) \/ Len(batch) < limit
                 THEN more
                 ELSE PageLoop(feed, start_date, end_date, start_idx + limit, more)

Paginate(feed, start_date, end_date) ==
    PageLoop(feed, start_date, end_date, 0,
             [raw |-> <<>>, pages |-> 0, end |-> "break", failed_page |-> 0])

\* the oldest date among the fetched activities
OldestDate(feed, raw) ==
    LET ds == {EntryDate(feed, raw[j]) : j \in 1..Len(raw)} IN
    CHOOSE d \in ds : \A e \in ds : d <= e

\* plausible bug: the daily window is never pulled forward
AdjustDailyStartNever(feed, raw, is_initial_sync, daily_start_date) ==
    daily_start_date

\* daily_start_date after the "user joined recently" adjustment
AdjustDailyStart(feed, raw, is_initial_sync, daily_start_date) ==
    IF is_initial_sync /\ raw # <<>> /\ OldestDate(feed, raw) > daily_start_date
    THEN OldestDate(feed, raw)
    ELSE daily_start_date

(***************************************************************************)
(* Storage: a table is a set of rows; upsert replaces the rows that agree  *)
(* with a document on the on_conflict columns.                             *)
(***************************************************************************)
SameKey(a, b, cols) == \A c \in cols : a[c] = b[c]

\* plausible bug: insert instead of upsert
RECURSIVE Insert(_, _, _)
Insert(table, docs, cols) ==
    IF docs = <<>> THEN table
    ELSE Insert(table \cup {Head(docs)}, Tail(docs), cols)

RECURSIVE UpsertLoop(_, _, _)
UpsertLoop(table, docs, cols) ==
    IF docs = <<>> THEN table
    ELSE UpsertLoop({row \in table : ~SameKey(row, Head(docs), cols)} \cup {Head(docs)},
                    Tail(docs), cols)

Upsert(table, docs, cols) == UpsertLoop(table, docs, cols)

ActivityKey == {"activity_id"}
DayKey == {"user_id", "date"}

(***************************************************************************)
(* update_progress: read goals, set sync_progress, write goals back        *)
(***************************************************************************)
\* the run calls update_progress(user_id, pct) and goes on at ret
CallProgress(rec, pct, ret) == [rec EXCEPT !.pc = "up_read", !.pct = pct, !.ret = ret]

\* plausible bug: a failing read of update_progress reaches the run
UpReadRaises(r) ==
    /\ run[r].pc = "up_read"
    /\ run' = [run EXCEPT ![r] =
         IF Fault("progress_read") THEN Raise(@, "StorageError")
         ELSE [@ EXCEPT !.pc = "up_write", !.goals_tmp = goals]]
    /\ UNCHANGED <<fnVars, profile, env, userVars, tableVars, clock, invoked, hist>>

UpRead(r) ==
    /\ run[r].pc = "up_read"
    /\ run' = [run EXCEPT ![r] =
         IF Fault("progress_read") THEN [@ EXCEPT !.pc = run[r].ret]
         ELSE [@ EXCEPT !.pc = "up_write", !.goals_tmp = goals]]
    /\ UNCHANGED <<fnVars, profile, env, userVars, tableVars, clock, invoked, hist>>

UpWrite(r) ==
    /\ run[r].pc = "up_write"
    /\ goals' = IF Fault("progress_write") THEN goals
                ELSE [run[r].goals_tmp EXCEPT !.sync_progress = run[r].pct]
    /\ run' = [run EXCEPT ![r] = [@ EXCEPT
         !.pc = run[r].ret,
         !.written = IF Fault("progress_write") THEN @ ELSE Append(@, run[r].pct)]]
    /\ hist' = IF ~Fault("progress_write") /\ run[r].pct < goals.sync_progress
               THEN [hist EXCEPT !.progress_fell = TRUE] ELSE hist
    /\ UNCHANGED <<fnVars, profile, env, creds, status, last_error, started_at,
                   completed_at, tableVars, clock, invoked>>

\* update_progress(5) after the login
Progress5(r) ==
    /\ run[r].pc = "progress5"
    /\ run' = [run EXCEPT ![r] = CallProgress(@, 5, "scope")]
    /\ UNCHANGED <<fnVars, profile, env, userVars, tableVars, clock, invoked, hist>>

\* 2. determine scope; update_progress(10)
Scope(r) ==
    /\ run[r].pc = "scope"
    /\ LET w == PlanWindow(run[r].last_synced, run[r].force) IN
       run' = [run EXCEPT ![r] = CallProgress(
                 [@ EXCEPT !.is_initial_sync = w.is_initial_sync,
                           !.start_date = w.start_date,
                           !.daily_start_date = w.daily_start_date,
                           !.end_date = w.end_date],
                 10, "fetch_activities")]
    /\ UNCHANGED <<fnVars, profile, env, userVars, tableVars, clock, invoked, hist>>

(***************************************************************************)
(* 3. Process activities                                                   *)
(***************************************************************************)
\* the retry loop around get_activity_details
\* plausible bug: the detail fetch is tried once, whatever it raises
DetailLoopOnce(outs, attempt) ==
    [got |-> outs[1] = "ok", calls |-> 1]

RECURSIVE DetailLoop(_, _)
DetailLoop(outs, attempt) ==
    IF attempt >= DetailAttempts THEN [got |-> FALSE, calls |-> attempt]
    ELSE IF outs[attempt + 1] = "ok" THEN [got |-> TRUE, calls |-> attempt + 1]
    ELSE IF outs[attempt + 1] \in {"SSLError", "ConnectionError"}
    THEN DetailLoop(outs, attempt + 1)
    ELSE [got |-> FALSE, calls |-> attempt + 1]

\* plausible bug: the details are fetched for every activity in every mode
FetchDetailsAlways(is_initial_sync, i) == TRUE

\* fetch_details = not is_initial_sync or (i < 50)
FetchDetails(is_initial_sync, i) == ~is_initial_sync \/ i < DetailCap

ActivityDoc(id, details, inv) ==
    [user_id |-> TheUser, activity_id |-> id, details |-> details, inv |-> inv]

\* an exception inside the activity stage: logged, on to the daily data
ToDaily(rec) == CallProgress(rec, 50, "read_existing")

\* the pagination loop and the daily_start_date adjustment
FetchActivities(r) ==
    /\ run[r].pc = "fetch_activities"
    /\ LET me == run[r]
           got == Paginate(env.feed, me.start_date, me.end_date)
           asked == [me EXCEPT !.pages = got.pages,
                               !.calls = @ \cup {"get_activities"},
                               !.failed = IF got.failed_page # 0
                                          THEN @ \cup {"page"} ELSE @]
       IN  run' = [run EXCEPT ![r] =
             IF got.end = "raise"
             THEN ToDaily([asked EXCEPT !.failed = @ \cup {"activity_stage"}])
             ELSE [asked EXCEPT
                     !.raw_activities = got.raw,
                     !.daily_start_date = AdjustDailyStart(env.feed, got.raw,
                                              me.is_initial_sync, @),
                     !.i = 0,
                     !.batch_activities = <<>>,
                     !.pc = IF got.raw = <<>> THEN "act_final" ELSE "activity"]]
    /\ UNCHANGED <<fnVars, profile, env, userVars, tableVars, clock, invoked, hist>>

\* one activity: its details, its document, its progress update
Activity(r) ==
    /\ run[r].pc = "activity"
    /\ LET me == run[r]
           total_activities == Len(me.raw_activities)
           id == me.raw_activities[me.i + 1]
           det == IF FetchDetails(me.is_initial_sync, me.i)
                  THEN DetailLoop(Outs("detail", id, DetailAttempts), 0)
                  ELSE [got |-> FALSE, calls |-> 0]
           docd == [me EXCEPT
                     !.batch_activities = Append(@, ActivityDoc(id, det.got, me.inv)),
                     !.details_log = Append(@, det),
                     !.calls = IF det.calls > 0
                               THEN @ \cup {"get_activity_details"} ELSE @,
                     !.failed = IF det.calls > 0 /\ ~det.got
                                THEN @ \cup {"detail"} ELSE @]
       IN  run' = [run EXCEPT ![r] =
             IF total_activities > 0 /\ me.i % ActivityProgressEvery = 0
             THEN CallProgress(docd, 10 + (me.i * 40) \div total_activities,
                               "act_flush")
             ELSE [docd EXCEPT !.pc = "act_flush"]]
    /\ UNCHANGED <<fnVars, profile, env, userVars, tableVars, clock, invoked, hist>>

\* the batch upsert at 20 documents, then the next activity
ActFlush(r) ==
    /\ run[r].pc = "act_flush"
    /\ LET me == run[r]
           full == Len(me.batch_activities) >= ActivityBatchSize
           next == [me EXCEPT !.i = @ + 1,
                      !.pc = IF me.i + 1 < Len(me.raw_activities)
                             THEN "activity" ELSE "act_final"]
       IN  IF full /\ Fault("upsert_activities")
           THEN /\ run' = [run EXCEPT ![r] =
                      ToDaily([me EXCEPT !.failed = @ \cup {"activity_stage"}])]
                /\ UNCHANGED activities
           ELSE IF full
           THEN /\ activities' = Upsert(activities, me.batch_activities, ActivityKey)
                /\ run' = [run EXCEPT ![r] =
                      [next EXCEPT !.batch_activities = <<>>,
                                   !.act_upserted = @ + Len(me.batch_activities)]]
           ELSE /\ run' = [run EXCEPT ![r] = next]
                /\ UNCHANGED activities
    /\ UNCHANGED <<fnVars, profile, env, userVars, daily, sleep, maxmetrics, clock,
                   invoked, hist>>

\* the upsert of the last, partial batch; update_progress(50)
ActFinal(r) ==
    /\ run[r].pc = "act_final"
    /\ LET me == run[r] IN
       IF me.batch_activities # <<>> /\ Fault("upsert_activities")
       THEN /\ run' = [run EXCEPT ![r] =
                  ToDaily([me EXCEPT !.failed = @ \cup {"activity_stage"}])]
            /\ UNCHANGED activities
       ELSE /\ activities' = Upsert(activities, me.batch_activities, ActivityKey)
            /\ run' = [run EXCEPT ![r] =
                  ToDaily([me EXCEPT !.batch_activities = <<>>,
                                     !.act_upserted = @ + Len(me.batch_activities)])]
    /\ UNCHANGED <<fnVars, profile, env, userVars, daily, sleep, maxmetrics, clock,
                   invoked, hist>>

(***************************************************************************)
(* 4. Process daily data                                                   *)
(***************************************************************************)
\* the per-day streams in the order the day loop fetches them
DayStreams == <<"steps", "sleep", "hr", "rhr", "stress">>

\* the first stream whose robust_api_call raises on that day, 0 when none does
FirstFailing(age) ==
    LET bad == {j \in 1..Len(DayStreams) :
                  robust_api_call(Outs(DayStreams[j], age, DefaultRetries),
                                  DefaultRetries).ret # "ok"}
    IN  IF bad = {} THEN 0 ELSE CHOOSE j \in bad : \A k \in bad : j <= k

\* what the provider holds for a day
ProviderRhr(day) == RhrInputs[(day % Len(RhrInputs)) + 1]
ProviderStress(day) == StressInputs[(day % Len(StressInputs)) + 1]
ProviderSleep(day) == (Today - day) \notin env.nosleep

DailyDoc(day, inv) ==
    [user_id |-> TheUser, date |-> day,
     resting_hr |-> NormalizeRhr(ProviderRhr(day)).val,
     stress |-> NormalizeStress(ProviderStress(day)).val,
     inv |-> inv]
SleepDoc(day, inv) == [user_id |-> TheUser, date |-> day, inv |-> inv]

\* the dates of garmin_daily from daily_start_date on; the day loop's locals
ReadExisting(r) ==
    /\ run[r].pc = "read_existing"
    /\ run' = [run EXCEPT ![r] = [@ EXCEPT
         !.existing = IF Fault("read_existing") THEN {}
                      ELSE {row.date : row \in
                              {x \in daily : x.user_id = TheUser
                                             /\ x.date >= run[r].daily_start_date}},
         !.current_day = run[r].daily_start_date,
         !.days_processed = 0,
         !.daily_batch = <<>>,
         !.sleep_batch = <<>>,
         !.pc = "day"]]
    /\ UNCHANGED <<fnVars, profile, env, userVars, tableVars, clock, invoked, hist>>

\* plausible bug: the end date is left out of the day loop
DayLoopDoneExclusive(current_day, end_date) == current_day >= end_date

\* the negation of the loop condition, current_day <= end_date
DayLoopDone(current_day, end_date) == current_day > end_date

\* while current_day <= end_date: the progress update of the day
\* plausible bug: the percentage of the day loop counts down
DayPctFalling(days_processed, total_days) ==
    50 - (days_processed * 40) \div total_days

\* pct = 50 + int((days_processed / total_days) * 40)
DayPct(days_processed, total_days) ==
    50 + (days_processed * 40) \div total_days

Day(r) ==
    /\ run[r].pc = "day"
    /\ LET me == run[r]
           total_days == me.end_date - me.daily_start_date + 1
       IN  run' = [run EXCEPT ![r] =
             IF DayLoopDone(me.current_day, me.end_date)
             THEN [me EXCEPT !.pc = "final_flush"]
             ELSE IF total_days > 0 /\ me.days_processed % DayProgressEvery = 0
             THEN CallProgress(me, DayPct(me.days_processed, total_days),
                               "day_body")
             ELSE [me EXCEPT !.pc = "day_body"]]
    /\ UNCHANGED <<fnVars, profile, env, userVars, tableVars, clock, invoked, hist>>

\* the skip of a stored day, else the five fetches, the documents and the
\* weekly upserts
\* plausible bug: the documents of a day are kept although a fetch raised
DayKeptAnyway(skip, bad) == ~skip

\* the documents of a day are appended at the end of the try: only when
\* the day was not skipped and none of its five fetches raised
DayKept(skip, bad) == ~skip /\ bad = 0

DayBody(r) ==
    /\ run[r].pc = "day_body"
    /\ LET me == run[r]
           day == me.current_day
           skip == me.is_initial_sync /\ day \in me.existing
           bad == FirstFailing(Today - day)
           fetched == DayKept(skip, bad)
           dbatch == IF fetched THEN Append(me.daily_batch, DailyDoc(day, me.inv))
                     ELSE me.daily_batch
           sbatch == IF fetched /\ ProviderSleep(day)
                     THEN Append(me.sleep_batch, SleepDoc(day, me.inv))
                     ELSE me.sleep_batch
           dfull == ~skip /\ Len(dbatch) >= WeeklyBatchSize
           sfull == ~skip /\ Len(sbatch) >= WeeklyBatchSize
           stepped == [me EXCEPT
                         !.days_processed = @ + 1,
                         !.current_day = @ + 1,
                         !.daily_batch = IF dfull THEN <<>> ELSE dbatch,
                         !.sleep_batch = IF sfull THEN <<>> ELSE sbatch,
                         !.calls = IF skip THEN @ ELSE @ \cup {"daily"},
                         !.skipped = IF skip THEN @ \cup {day} ELSE @,
                         !.fetched = IF skip THEN @ ELSE @ \cup {day},
                         !.failed = IF ~skip /\ bad # 0 THEN @ \cup {"day"} ELSE @,
                         !.daily_batches = IF dfull THEN Append(@, Len(dbatch)) ELSE @,
                         !.sleep_batches = IF sfull THEN Append(@, Len(sbatch)) ELSE @,
                         !.pc = "day"]
       IN  IF dfull /\ Fault("upsert_daily")
           THEN /\ run' = [run EXCEPT ![r] = Raise(me, "StorageError")]
                /\ UNCHANGED <<daily, sleep>>
           ELSE IF sfull /\ Fault("upsert_sleep")
           THEN /\ daily' = IF dfull THEN Upsert(daily, dbatch, DayKey) ELSE daily
                /\ run' = [run EXCEPT ![r] = Raise(
                      [me EXCEPT !.daily_batches =
                                   IF dfull THEN Append(@, Len(dbatch)) ELSE @],
                      "StorageError")]
                /\ UNCHANGED sleep
           ELSE /\ daily' = IF dfull THEN Upsert(daily, dbatch, DayKey) ELSE daily
                /\ sleep' = IF sfull THEN Upsert(sleep, sbatch, DayKey) ELSE sleep
                /\ run' = [run EXCEPT ![r] = stepped]
    /\ UNCHANGED <<fnVars, profile, env, userVars, activities, maxmetrics, clock,
                   invoked, hist>>

\* the final flush of both batches; update_progress(90)
FinalFlush(r) ==
    /\ run[r].pc = "final_flush"
    /\ LET me == run[r]
           dsome == me.daily_batch # <<>>
           ssome == me.sleep_batch # <<>>
           dlog == IF dsome THEN Append(me.daily_batches, Len(me.daily_batch))
                   ELSE me.daily_batches
           slog == IF ssome THEN Append(me.sleep_batches, Len(me.sleep_batch))
                   ELSE me.sleep_batches
       IN  IF dsome /\ Fault("upsert_daily")
           THEN /\ run' = [run EXCEPT ![r] = Raise(me, "StorageError")]
                /\ UNCHANGED <<daily, sleep>>
           ELSE IF ssome /\ Fault("upsert_sleep")
           THEN /\ daily' = Upsert(daily, me.daily_batch, DayKey)
                /\ run' = [run EXCEPT ![r] =
                      Raise([me EXCEPT !.daily_batches = dlog], "StorageError")]
                /\ UNCHANGED sleep
           ELSE /\ daily' = Upsert(daily, me.daily_batch, DayKey)
                /\ sleep' = Upsert(sleep, me.sleep_batch, DayKey)
                /\ run' = [run EXCEPT ![r] = CallProgress(
                      [me EXCEPT !.daily_batch = <<>>, !.sleep_batch = <<>>,
                                 !.daily_batches = dlog, !.sleep_batches = slog],
                      90, "max_metrics")]
    /\ hist' = IF run'[r].pc = "except" \/ run[r].failed # {} THEN hist
               ELSE [hist EXCEPT !.done_act = Min(@, run[r].start_date),
                                 !.done_daily = Min(@, run[r].daily_start_date)]
    /\ UNCHANGED <<fnVars, profile, env, userVars, activities, maxmetrics, clock, invoked>>

(***************************************************************************)
(* 5. Finalize and analytics                                               *)
(***************************************************************************)
\* get_max_metrics for the end date and its upsert, every failure swallowed
MaxMetrics(r) ==
    /\ run[r].pc = "max_metrics"
    /\ LET me == run[r]
           doc == [user_id |-> TheUser, date |-> me.end_date, inv |-> me.inv]
       IN  /\ maxmetrics' =
                IF Fault("max_metrics") \/ ~env.maxm \/ Fault("upsert_maxmetrics")
                THEN maxmetrics
                ELSE Upsert(maxmetrics, <<doc>>, DayKey)
           /\ run' = [run EXCEPT ![r] = [me EXCEPT
                !.pc = "read_goals2",
                !.calls = @ \cup {"get_max_metrics"},
                !.failed = IF Fault("max_metrics") THEN @ \cup {"max_metrics"}
                           ELSE @]]
    /\ UNCHANGED <<fnVars, profile, env, userVars, activities, daily, sleep, clock,
                   invoked, hist>>

\* re-fetch goals before the watermark
ReadGoals2(r) ==
    /\ run[r].pc = "read_goals2"
    /\ run' = [run EXCEPT ![r] =
         IF Fault("read_goals2") THEN Raise(@, "StorageError")
         ELSE [@ EXCEPT !.pc = "write_watermark", !.goals_tmp = goals]]
    /\ UNCHANGED <<fnVars, profile, env, userVars, tableVars, clock, invoked, hist>>

\* garmin_last_synced = now, sync_progress = 95; update_progress(95)
WriteWatermark(r) ==
    /\ run[r].pc = "write_watermark"
    /\ IF Fault("write_watermark")
       THEN /\ run' = [run EXCEPT ![r] = Raise(@, "StorageError")]
            /\ UNCHANGED <<goals, clock, hist>>
       ELSE /\ goals' = [run[r].goals_tmp EXCEPT
                           !.garmin_last_synced = Stamp(Today, clock + 1),
                           !.sync_progress = 95]
            /\ hist' = IF 95 < goals.sync_progress
                       THEN [hist EXCEPT !.progress_fell = TRUE] ELSE hist
            /\ clock' = clock + 1
            /\ run' = [run EXCEPT ![r] =
                  CallProgress([@ EXCEPT !.written = Append(@, 95)], 95, "analytics")]
    /\ UNCHANGED <<fnVars, profile, env, creds, status, last_error, started_at,
                   completed_at, tableVars, invoked>>

\* AnalyticsService.calculate_baselines, failures logged; update_progress(100)
Analytics(r) ==
    /\ run[r].pc = "analytics"
    /\ hist' = [hist EXCEPT !.analytics_run = @ + 1]
    /\ run' = [run EXCEPT ![r] = CallProgress(
         [@ EXCEPT !.failed = IF Fault("analytics") THEN @ \cup {"analytics"} ELSE @],
         100, "write_synced")]
    /\ UNCHANGED <<fnVars, profile, env, userVars, tableVars, clock, invoked>>

\* status synced, garmin_sync_completed_at = now
\* plausible bug: the write of synced clears the last error as well
WriteSyncedClearsError(r) ==
    /\ run[r].pc = "write_synced"
    /\ IF Fault("write_synced")
       THEN /\ run' = [run EXCEPT ![r] = Raise(@, "StorageError")]
            /\ UNCHANGED <<status, last_error, completed_at, clock>>
       ELSE /\ status' = "synced"
            /\ last_error' = "none"
            /\ completed_at' = clock + 1
            /\ clock' = clock + 1
            /\ run' = [run EXCEPT ![r] = [@ EXCEPT !.pc = "returned"]]
    /\ UNCHANGED <<fnVars, profile, env, creds, started_at, goals,
                   tableVars, invoked, hist>>

WriteSynced(r) ==
    /\ run[r].pc = "write_synced"
    /\ IF Fault("write_synced")
       THEN /\ run' = [run EXCEPT ![r] = Raise(@, "StorageError")]
            /\ UNCHANGED <<status, completed_at, clock>>
       ELSE /\ status' = "synced"
            /\ completed_at' = clock + 1
            /\ clock' = clock + 1
            /\ run' = [run EXCEPT ![r] = [@ EXCEPT !.pc = "returned"]]
    /\ UNCHANGED <<fnVars, profile, env, creds, last_error, started_at, goals,
                   tableVars, invoked, hist>>

(***************************************************************************)
(* Initial states and specifications                                       *)
(***************************************************************************)
\* three activities, 2, 9 and 12 days old
FeedThree == <<G(1, 2), G(1, 9), G(1, 12)>>
\* one activity of yesterday and one 40 days old
FeedOld == <<G(1, 1), G(1, 40)>>
SmallFeeds == {<<>>, FeedThree, FeedOld}
\* a full page of yesterday's activities and five more on a second page
FeedTwoPages == <<G(limit, 1), G(5, 2)>>

\* the key of the process, the provider's answers, no fault
EnvBase ==
    [keyed |-> TRUE, configKey |-> "k1", login |-> "ok", feed |-> FeedThree,
     faults |-> {}, nosleep |-> {}, maxm |-> TRUE, runs |-> 1, stored |-> {},
     had |-> {}]

GoodCreds == [email |-> TRUE, password |-> Token("k1", TRUE)]
CredStates ==
    { GoodCreds,
      [email |-> FALSE, password |-> NoToken],
      [email |-> TRUE, password |-> NoToken],
      [email |-> FALSE, password |-> Token("k1", TRUE)],
      [email |-> TRUE, password |-> Token("k2", TRUE)],
      [email |-> TRUE, password |-> Token("k1", FALSE)] }

\* the watermark before the first run: none, 10 days ago, yesterday
Watermarks == {NoStamp, Stamp(Today - 10, 0), Stamp(Today - 1, 0)}

\* storage calls of the session stage, and all storage calls that raise
SessionSites == {"read_goals", "write_syncing", "init_read_user",
                 "write_null_error", "write_error"}
StorageSites == SessionSites \cup
    {"progress_read", "progress_write", "upsert_activities", "read_existing",
     "upsert_daily", "upsert_sleep", "upsert_maxmetrics", "read_goals2",
     "write_watermark", "write_synced"}
\* provider calls that fail: pages, details of an activity, streams of a day
ProviderFaults ==
    {F("page", 1), F("page_blip", 1), F("page_http", 1),
     F("detail", 1), F("detail_blip", 2), F("detail_http", 3),
     F("detail_chunk", 2),
     F("steps", 0), F("sleep", 1), F("hr", 2), F("rhr", 3), F("stress", 4),
     F("steps_blip", 1), F("stress_http", 2),
     F("max_metrics", 0), F("analytics", 0)}

Single(S) == {{x} : x \in S}
\* no fault, one fault, or a storage fault together with the failure of the
\* error write of the top-level handler
FaultPlans ==
    {{}} \cup Single({F(x, 0) : x \in StorageSites}) \cup Single(ProviderFaults)
    \cup {{F("route_read", 0)}}
    \cup {{F(x, 0), F("write_error", 0)} : x \in StorageSites}
SessionFaultPlans ==
    {{}} \cup Single({F(x, 0) : x \in SessionSites}) \cup {{F("route_read", 0)}}
    \cup {{F(x, 0), F("write_error", 0)} : x \in SessionSites}

InitUser(c, w) ==
    /\ creds = c
    /\ status = "none"
    /\ last_error = "none"
    /\ started_at = 0
    /\ completed_at = 0
    /\ goals = [NoGoals EXCEPT !.garmin_last_synced = w]

\* garmin_activities rows stored before the run (env.had): activity 1 with
\* its details, synced by this user or by another user of the same account
HadOwn == {ActivityDoc(1, TRUE, 0)}
HadOther == {[ActivityDoc(1, TRUE, 0) EXCEPT !.user_id = "u2"]}

\* the garmin_daily rows an earlier sync has left: env.stored holds their ages
StoredDaily == {DailyDoc(Today - age, 0) : age \in env.stored}

InitRest ==
    /\ fnName = "none" /\ fnArg = JNull /\ fnRes = JNull
    /\ activities = env.had /\ daily = StoredDaily /\ sleep = {} /\ maxmetrics = {}
    /\ run = [r \in Runs |-> IdleRun]
    /\ clock = 0
    /\ invoked = 0
    /\ hist = NoHistory
    /\ profile = IdleProfile

(***************************************************************************)
(* PUT /auth/profile: the goals object is read, the keys of the request    *)
(* are set in the copy, and the whole copy is written back.                *)
(***************************************************************************)
Units == {"metric", "imperial"}

\* update_profile: select goals; current_goals["units"] = data["units"]
update_profile(u) ==
    /\ profile.pc = "idle"
    /\ profile' = [pc |-> "update", current_goals |-> [goals EXCEPT !.units = u]]
    /\ UNCHANGED <<fnVars, env, userVars, tableVars, run, clock, invoked, hist>>

\* update_profile: updates["goals"] = current_goals; update(updates)
update_profile_update ==
    /\ profile.pc = "update"
    /\ goals' = profile.current_goals
    /\ profile' = [profile EXCEPT !.pc = "done"]
    /\ UNCHANGED <<fnVars, env, creds, status, last_error, started_at,
                   completed_at, tableVars, run, clock, invoked, hist>>

ProfileStep == (\E u \in Units : update_profile(u)) \/ update_profile_update

\* the steps of the worker thread of run r
SessionStep(r) ==
    \/ ReadGoals(r) \/ WriteSyncing(r) \/ InitSession(r) \/ NullSession(r)
    \/ TopExcept(r) \/ WrapperAnalytics(r)

PipelineStep(r) ==
    \/ UpRead(r) \/ UpWrite(r) \/ Progress5(r) \/ Scope(r)
    \/ FetchActivities(r) \/ Activity(r) \/ ActFlush(r) \/ ActFinal(r)
    \/ ReadExisting(r) \/ Day(r) \/ DayBody(r) \/ FinalFlush(r)
    \/ MaxMetrics(r) \/ ReadGoals2(r) \/ WriteWatermark(r) \/ Analytics(r)
    \/ WriteSynced(r)

\* a call of one of the three entry points
Route(r) ==
    \/ \E force \in BOOLEAN : trigger_garmin_sync(r, force)
    \/ \E stale \in BOOLEAN : sync_if_needed(r, stale)
    \/ connect_garmin(r)

\* the calls that start a thread; a call that starts none leaves the user
\* record, the tables and the threads as they were
Trigger(r) == Route(r) /\ invoked' # invoked

\* The program as src/ holds it: decrypt_data has no key parameter.
Init ==
    /\ \E login \in LoginOutcomes, fp \in SessionFaultPlans :
         env = [EnvBase EXCEPT !.keyed = FALSE, !.login = login, !.faults = fp,
                               !.runs = MaxInvocations]
    /\ \E c \in CredStates, w \in Watermarks : InitUser(c, w)
    /\ InitRest

Next == \E r \in Runs : Trigger(r) \/ SessionStep(r)

Spec == Init /\ [][Next]_vars

\* Worker threads side by side: a sync is requested, and while its thread
\* works (or after it) the user reconnects; connect_garmin starts its thread
\* without reading the status.  One invocation per thread.
InitConc ==
    /\ \E fp \in {{}, {F("write_syncing", 2)}} :
         env = [EnvBase EXCEPT !.runs = Cardinality(Runs), !.feed = <<G(2, 1)>>,
                               !.faults = fp]
    /\ \E w \in {NoStamp, Stamp(Today - 1, 0)} : InitUser(GoodCreds, w)
    /\ InitRest

TriggerConc ==
    \/ \E force \in BOOLEAN : trigger_garmin_sync("r1", force) /\ invoked' # invoked
    \/ run["r1"].inv > 0 /\ connect_garmin("r2")
    \/ Live("r1") /\ trigger_garmin_sync("r2", FALSE) /\ invoked' # invoked

WorkerStep(r) ==
    \/ ReadGoals(r) \/ WriteSyncing(r) \/ InitSession(r) \/ TopExcept(r)
    \/ WrapperAnalytics(r) \/ PipelineStep(r)

NextConc == TriggerConc \/ \E r \in Runs : WorkerStep(r)

SpecConc == InitConc /\ [][NextConc]_vars

\* The program with decrypt_data taking the key its caller passes
\* (decrypt_data_keyed): one run, every stage, every fault plan.
InitKeyed ==
    /\ \/ /\ \E login \in LoginOutcomes, k \in {"k1", NoKey} :
               env = [EnvBase EXCEPT !.login = login, !.configKey = k]
          /\ \E c \in CredStates : InitUser(c, Stamp(Today - 10, 0))
       \/ /\ \E fp \in FaultPlans, feed \in SmallFeeds :
               env = [EnvBase EXCEPT !.faults = fp, !.feed = feed]
          /\ \E w \in Watermarks : InitUser(GoodCreds, w)
       \/ /\ env = [EnvBase EXCEPT !.stored = {0, 2, 20}]
          /\ \E w \in {NoStamp, Stamp(Today - 1, 0)} : InitUser(GoodCreds, w)
       \/ /\ env = [EnvBase EXCEPT !.feed = FeedTwoPages,
                                  !.faults = {F("page", 2)}]
          /\ \E w \in {NoStamp, Stamp(Today - 1, 0)} : InitUser(GoodCreds, w)
       \/ /\ \E had \in {HadOwn, HadOther}, fp \in {{}, {F("detail", 1)}} :
               env = [EnvBase EXCEPT !.had = had, !.faults = fp]
          /\ InitUser(GoodCreds, Stamp(Today - 10, 0))
       \/ /\ env = [EnvBase EXCEPT !.runs = 2,
                                  !.faults = {F("write_syncing", 1)}]
          /\ \E w \in {NoStamp, Stamp(Today - 1, 0)} : InitUser(GoodCreds, w)
    /\ InitRest

NextKeyed == Trigger("r1") \/ SessionStep("r1") \/ PipelineStep("r1")

SpecKeyed == InitKeyed /\ [][NextKeyed]_vars

\* One run behind the keyed decrypt and one profile update beside it.
InitProfile ==
    /\ \E fp \in {{}, {F("read_goals2", 0)}} :
           env = [EnvBase EXCEPT !.feed = <<G(1, 1)>>, !.faults = fp]
    /\ \E c \in CredStates, w \in {NoStamp, Stamp(Today - 1, 0)} : InitUser(c, w)
    /\ InitRest

NextProfile == NextKeyed \/ ProfileStep

SpecProfile == InitProfile /\ [][NextProfile]_vars

\* The entry points as src/ holds them, every call of a route included:
\* two thread slots, a status read that may fail, a status write that may.
RouteFaultPlans ==
    {{}, {F("route_read", 0)}, {F("write_syncing", 0)},
     {F("write_null_error", 0), F("write_error", 0)}}

InitRoutes ==
    /\ \E fp \in RouteFaultPlans :
         env = [EnvBase EXCEPT !.keyed = FALSE, !.faults = fp,
                               !.runs = MaxInvocations]
    /\ \E w \in {NoStamp, Stamp(Today - 1, 0)} : InitUser(GoodCreds, w)
    /\ InitRest

NextRoutes == \E r \in Runs : Route(r) \/ SessionStep(r)

SpecRoutes == InitRoutes /\ [][NextRoutes]_vars

(***************************************************************************)
(* The functions of the run taken alone: an input is drawn, the function   *)
(* is applied once.                                                        *)
(***************************************************************************)
SeqSet(q) == {q[j] : j \in 1..Len(q)}

\* attempt outcomes for every retry budget up to MaxRetries
RetryInputs ==
    UNION {[outs : [1..n -> CallOutcomes], retries : {n}] : n \in 1..MaxRetries}

\* pages a feed is put together from: full and in the window, full with an
\* entry just before the window, full with an entry far before it, full
\* and old throughout, short, with an entry lacking its start time
PageKinds ==
    { <<G(limit, 2)>>,
      <<G(limit - 1, 5), G(1, 15)>>,
      <<G(limit - 1, 5), G(1, 23)>>,
      <<G(limit, 30)>>,
      <<G(40, 3)>>,
      <<G(50, 4), G(1, MissingDate), G(limit - 51, 6)>> }
\* feeds of up to MaxPages such pages
MaxPages == 3
RECURSIVE FeedsOf(_)
FeedsOf(n) ==
    IF n = 0 THEN {<<>>}
    ELSE LET shorter == FeedsOf(n - 1) IN
         shorter \cup {f \o pg : f \in {g \in shorter : FeedLen(g) = (n - 1) * limit},
                                 pg \in PageKinds}
PaginateInputs ==
    [feed : FeedsOf(MaxPages), start_date : {Today - 13}, end_date : {Today}]
PageFaultPlans == {{}} \cup {{F("page", n)} : n \in 1..MaxPages} \cup {{F("page_blip", 2)}}

Unset == [t |-> "unset"]

InitFn ==
    /\ \/ fnName = "robust_api_call" /\ fnArg \in RetryInputs /\ env = EnvBase
       \/ fnName = "rhr" /\ fnArg \in SeqSet(RhrInputs) /\ env = EnvBase
       \/ fnName = "stress" /\ fnArg \in SeqSet(StressInputs) /\ env = EnvBase
       \/ /\ fnName = "paginate" /\ fnArg \in PaginateInputs
          /\ \E fp \in PageFaultPlans : env = [EnvBase EXCEPT !.faults = fp]
    /\ fnRes = Unset
    /\ InitUser(GoodCreds, NoStamp)
    /\ activities = {} /\ daily = {} /\ sleep = {} /\ maxmetrics = {}
    /\ run = [r \in Runs |-> IdleRun]
    /\ clock = 0 /\ invoked = 0 /\ hist = NoHistory /\ profile = IdleProfile

ApplyRetry ==
    /\ fnName = "robust_api_call" /\ fnRes = Unset
    /\ fnRes' = robust_api_call(fnArg.outs, fnArg.retries)
    /\ UNCHANGED <<fnName, fnArg, env, userVars, tableVars, runVars>>

ApplyRhr ==
    /\ fnName = "rhr" /\ fnRes = Unset
    /\ fnRes' = NormalizeRhr(fnArg)
    /\ UNCHANGED <<fnName, fnArg, env, userVars, tableVars, runVars>>

ApplyStress ==
    /\ fnName = "stress" /\ fnRes = Unset
    /\ fnRes' = NormalizeStress(fnArg)
    /\ UNCHANGED <<fnName, fnArg, env, userVars, tableVars, runVars>>

ApplyPaginate ==
    /\ fnName = "paginate" /\ fnRes = Unset
    /\ fnRes' = Paginate(fnArg.feed, fnArg.start_date, fnArg.end_date)
    /\ UNCHANGED <<fnName, fnArg, env, userVars, tableVars, runVars>>

NextFn == ApplyRetry \/ ApplyRhr \/ ApplyStress \/ ApplyPaginate

SpecFn == InitFn /\ [][NextFn]_vars

(***************************************************************************)
(* Properties                                                              *)
(***************************************************************************)
\* C5: for every retry bound N >= 1, robust_api_call invokes the function
\* exactly N times when every attempt raises a transient error and then
\* propagates the last error; exactly once when the first attempt raises
\* any other exception, which it propagates; and when attempt k <= N is the
\* first to succeed it returns after exactly k invocations.
C5_RetryPolicy ==
    (fnName = "robust_api_call" /\ fnRes # Unset) =>
        LET outs == fnArg.outs
            N == fnArg.retries
        IN  /\ (\A i \in 1..N : outs[i] \in TransientErrors) =>
                   /\ fnRes.ret = "raise" /\ fnRes.calls = N
                   /\ fnRes.err = N /\ fnRes.kind = outs[N]
            /\ outs[1] \notin TransientErrors \cup {"ok"} =>
                   /\ fnRes.ret = "raise" /\ fnRes.calls = 1
                   /\ fnRes.err = 1 /\ fnRes.kind = outs[1]
            /\ \A k \in 1..N :
                   (outs[k] = "ok" /\ \A j \in 1..(k - 1) : outs[j] \in TransientErrors)
                       => fnRes.ret = "ok" /\ fnRes.calls = k

\* three attempts, each a transient error: three invocations, the last raised
C5_Witness ==
    /\ fnName = "robust_api_call" /\ fnRes # Unset
    /\ fnArg.retries = 3
    /\ \A i \in 1..3 : fnArg.outs[i] \in TransientErrors
    /\ fnArg.outs[3] = "ChunkedEncodingError"
    /\ fnRes.ret = "raise" /\ fnRes.calls = 3 /\ fnRes.kind = "ChunkedEncodingError"

\* C7 (as stated): the resting-heart-rate normalizer maps a bare number n to
\* n, a flat object {"restingHeartRate": n} to n, and a nested object whose
\* allMetrics.metricsMap.WELLNESS_RESTING_HEART_RATE is a list with first
\* entry {"value": n} to n, trying the shapes in that order; every other
\* input yields null and never raises.
C7_ThreeShapes ==
    (fnName = "rhr" /\ fnRes # Unset) =>
        LET raw == fnArg
            flat == IsDict(raw) /\ "restingHeartRate" \in DOMAIN raw.kv
            am == IF IsDict(raw) THEN DictGet(raw, "allMetrics", JNull) ELSE JNull
            mm == IF IsDict(am) THEN DictGet(am, "metricsMap", JNull) ELSE JNull
            vals == IF IsDict(mm) THEN DictGet(mm, RhrKey, JNull) ELSE JNull
            first == IF IsList(vals) /\ Len(vals.items) > 0 THEN vals.items[1] ELSE JNull
            nested == IsDict(first) /\ "value" \in DOMAIN first.kv
        IN  /\ ~fnRes.exc
            /\ fnRes.val = IF IsIntOrFloat(raw) THEN raw
                           ELSE IF flat THEN raw.kv["restingHeartRate"]
                           ELSE IF nested THEN first.kv["value"]
                           ELSE JNull

\* C9: with pages 1 and 2 full and entirely in the window and page 3
\* holding an entry dated window start - 10 days, exactly three page
\* requests are made; and no page is requested after a page that holds an
\* entry strictly older than window start - 7 days or fewer items than the
\* page size.
C9_EarlyStop ==
    (fnName = "paginate" /\ fnRes # Unset) =>
        LET feed == fnArg.feed
            start_date == fnArg.start_date
            PageP(p) == PageOf(feed, (p - 1) * limit)
            FullInWindow(p) ==
                /\ Len(PageP(p)) = limit
                /\ \A j \in 1..limit :
                       InWindow(feed, PageP(p)[j], start_date, fnArg.end_date)
            Holds(p, d) ==
                \E j \in 1..Len(PageP(p)) :
                    HasDate(feed, PageP(p)[j]) /\ EntryDate(feed, PageP(p)[j]) = d
            Stops(p) ==
                \/ Len(PageP(p)) < limit
                \/ \E j \in 1..Len(PageP(p)) :
                       /\ HasDate(feed, PageP(p)[j])
                       /\ EntryDate(feed, PageP(p)[j]) < start_date - 7
        IN  /\ ( /\ env.faults = {} /\ FeedLen(feed) >= 2 * limit + 1
                 /\ FullInWindow(1) /\ FullInWindow(2)
                 /\ Holds(3, start_date - 10) ) => fnRes.pages = 3
            /\ \A p \in 1..(fnRes.pages - 1) : ~Stops(p)

\* two full pages in the window, then a full page with one entry ten days
\* before the window start: three requests, the entries in the window kept
C9_Witness ==
    /\ fnName = "paginate" /\ fnRes # Unset /\ env.faults = {}
    /\ fnArg.feed = <<G(limit, 2), G(limit, 2), G(limit - 1, 5), G(1, 23)>>
    /\ fnArg.start_date = Today - 13
    /\ fnRes.pages = 3 /\ Len(fnRes.raw) = 3 * limit - 1

C1_TerminalStatus ==
    \A r \in Runs :
        (run[r].pc \in {"returned", "ended", "crashed"}
         /\ \A q \in Runs \ {r} : ~Live(q))
            => status \in {"synced", "error"}

\* C3 (as stated): for a user whose stored credential was encrypted under
\* the key supplied to the run and whose login the provider accepts,
\* init_garmin_api_for_user returns a session; it returns null only when
\* the user or credential is absent, the ciphertext does not decrypt with
\* the key, or the provider rejects the login.
C3_SessionOpens ==
    \A r \in Runs :
        run[r].pc = "null_session" =>
            \/ ~creds.email \/ ~creds.password.present
            \/ FernetDecrypt(creds.password, run[r].key) # "ok"
            \/ env.login # "ok"

C4_NullSession ==
    LET me == run["r1"] IN
    (me.pc \in {"returned", "ended"} /\ "session" \in me.failed)
        => /\ status = "error" /\ last_error = ReconnectMessage
           /\ me.calls = {} /\ me.pages = 0
           /\ activities = {} /\ daily = {} /\ sleep = {} /\ maxmetrics = {}
           /\ hist.analytics_run = 0
           /\ goals = [me.user_goals EXCEPT !.sync_progress = 0]
           /\ completed_at = 0

\* a credential encrypted under another key: no session, the reconnect message
C4_Witness ==
    /\ run["r1"].pc = "returned"
    /\ creds = [email |-> TRUE, password |-> Token("k2", TRUE)]
    /\ run["r1"].key = "k1"
    /\ "session" \in run["r1"].failed
    /\ status = "error" /\ last_error = ReconnectMessage

C14_NoStartWhileSyncing ==
    [][status = "syncing" =>
         /\ \A r \in Runs :
                (\E force \in BOOLEAN : trigger_garmin_sync(r, force))
                \/ (\E stale \in BOOLEAN : sync_if_needed(r, stale))
                    => /\ UNCHANGED <<run, invoked, userVars, tableVars>>
                       /\ hist'.declined.seen \in {"syncing", "none"}
                       /\ (hist'.declined.fn = "trigger_garmin_sync"
                           /\ hist'.declined.seen = "syncing")
                              => /\ hist'.declined.code = 200
                                 /\ hist'.declined.status = "syncing"
         /\ \A r \in Runs :
                run'[r].inv # run[r].inv => run'[r].via = "connect"]_vars

\* POST /garmin/sync was declined while a run was working and the status
\* is still syncing
C14_Witness ==
    /\ status = "syncing"
    /\ hist.declined = Answer("trigger_garmin_sync", "syncing", 200, "syncing")
    /\ \E r \in Runs : Live(r)

C20_MarginBeforeStop ==
    (fnName = "paginate" /\ fnRes # Unset /\ env.faults = {}) =>
        LET feed == fnArg.feed
            start_date == fnArg.start_date
            PageP(p) == PageOf(feed, (p - 1) * limit)
            Dated(p, lo, hi) ==
                \E j \in 1..Len(PageP(p)) :
                    /\ HasDate(feed, PageP(p)[j])
                    /\ EntryDate(feed, PageP(p)[j]) >= lo
                    /\ EntryDate(feed, PageP(p)[j]) < hi
        IN  \A p \in 1..fnRes.pages :
                (/\ Len(PageP(p)) = limit
                 /\ FeedLen(feed) > p * limit
                 /\ Dated(p, start_date - StopMarginDays, start_date)
                 /\ ~Dated(p, 0, start_date - StopMarginDays))
                    => /\ fnRes.pages > p
                       /\ \A j \in 1..Len(PageP(p + 1)) :
                              InWindow(feed, PageP(p + 1)[j], start_date,
                                       fnArg.end_date)
                                  => \E k \in 1..Len(fnRes.raw) :
                                         fnRes.raw[k] = PageP(p + 1)[j]

C29_NoLostGoalsWrite ==
    [][/\ (profile' # profile)
              => /\ goals'.garmin_last_synced = goals.garmin_last_synced
                 /\ goals'.sync_progress >= goals.sync_progress
       /\ (run' # run) => (goals'.units = goals.units)
      ]_vars

====
